---- MODULE Spec2Model ----
(***************************************************************************)
(* PIX deposit controller of backend_thunder03 (src/unnamed/part_000):     *)
(* generatePixQrCode creates PENDING PIX deposits, pixWebhook reconciles   *)
(* them ("logica especial").  Every await of pixWebhook is a point where   *)
(* other requests of the Node process (or of another instance sharing the  *)
(* database) may run, so every database round trip is one action.          *)
(***************************************************************************)
EXTENDS Integers, Sequences, FiniteSets, TLC

\* ------------------------------------------------------------------ bounds
MaxTx == 2          \* transactions the store may hold
MaxNow == 1         \* the clock runs 0..MaxNow

\* --------------------------------------------------------- program constants
MinDeposit == 35    \* generatePixQrCode: amount < 35 is rejected
Unknown == -1       \* the string 'unknown' put where a payload number is missing

Users == {"u1", "u2"}
Procs == {"w1", "w2"}          \* webhook requests the server may be serving at once
NoUser == "none"

\* amounts a client may post to /api/pix/generate (0 stands for a missing one)
AmountInputs == {-5, 0, 20, 35, 500}

\* req.body.requestBody of a webhook delivery; present = FALSE: no requestBody
NoBody == [present |-> FALSE, status |-> "", amount |-> 0, transactionId |-> ""]
PaidFull == [present |-> TRUE, status |-> "PAID", amount |-> 35, transactionId |-> "E1"]
PaidBare == [present |-> TRUE, status |-> "PAID", amount |-> 0, transactionId |-> ""]
NotPaid == [present |-> TRUE, status |-> "PENDING", amount |-> 35, transactionId |-> "E1"]
Bodies == {NoBody, PaidFull, NotPaid}

VARIABLES
  txs,        \* Transaction collection: sequence of documents, _id = index
  users,      \* ids that have a User document
  balance,    \* User.balance
  now,        \* Date.now()
  pc,         \* per webhook request: the await it is suspended at
  body,       \* per webhook request: requestBody
  userId,     \* per webhook request: const userId
  latestTransaction,         \* per webhook request: _id of the candidate (0: null)
  otherPendingTransactions,  \* per webhook request: ids returned by Transaction.find
  res,        \* the webhook response the last step sent (code 0: it sent none)
  obs         \* SpecSeq: what is known of the request served last

prog == <<txs, users, balance, now, pc, body, userId, latestTransaction,
          otherPendingTransactions, res>>

vars == <<prog, obs>>

\* ---------------------------------------------------------------- documents
NoMeta == [specialLogicApplied |-> FALSE, originalAmount |-> 0,
           actualPaymentAmount |-> 0, pixTransactionId |-> "",
           userIdProcessed |-> NoUser, cancelledBy |-> ""]

NoRes == [code |-> 0, message |-> "", userId |-> NoUser, originalAmount |-> 0,
          actualPaymentAmount |-> 0, cancelledTransactions |-> 0, totalCredited |-> 0]

ErrRes(code, message) == [NoRes EXCEPT !.code = code, !.message = message]

Ids == DOMAIN txs

\* the filter {type: 'DEPOSIT', status: 'PENDING', paymentMethod: 'PIX'}
IsPendingPix(t) == t.type = "DEPOSIT" /\ t.status = "PENDING" /\ t.paymentMethod = "PIX"

PendingPix == {i \in Ids : IsPendingPix(txs[i])}

PendingPixOf(u) == {i \in PendingPix : txs[i].userId = u}

\* x || 'unknown' on a number / on a string
NumOrUnknown(x) == IF x = 0 THEN Unknown ELSE x
StrOrUnknown(s) == IF s = "" THEN "unknown" ELSE s

\* ------------------------------------------------------------ initial state
\* what is known of the request served last, until the next one. served: which
\* handler ("none", "generate", "webhook"); preTxs, preBalance: store and balances
\* when the webhook request arrived; body: its payload; candidate: the document it
\* selected (0: none); priorBody, priorCode: payload and status code of the webhook
\* request answered right before it arrived (priorCode 0: there is none); genCode,
\* genId, genAmount: status code of the generatePixQrCode response, the _id the
\* request created (0: none) and the amount it posted; genQrFails: its PIX
\* service call threw; priorGenId: the _id created by the generatePixQrCode
\* request whose PIX service call threw, served right before the webhook request
\* (0: none); overlap (SpecRace): a webhook request arrived while another was
\* being served
NoObs == [served |-> "none", preTxs |-> << >>, preBalance |-> [u \in Users |-> 0],
          body |-> NoBody, candidate |-> 0, priorBody |-> NoBody, priorCode |-> 0,
          genCode |-> 0, genId |-> 0, genAmount |-> 0, genQrFails |-> FALSE,
          priorGenId |-> 0, overlap |-> FALSE]

\* u1 has a User document; u2's may have been deleted
Init ==
  /\ txs = << >>
  /\ users \in {Users, {"u1"}}
  /\ balance = [u \in Users |-> 0]
  /\ now = 0
  /\ pc = [p \in Procs |-> "idle"]
  /\ body = [p \in Procs |-> NoBody]
  /\ userId = [p \in Procs |-> NoUser]
  /\ latestTransaction = [p \in Procs |-> 0]
  /\ otherPendingTransactions = [p \in Procs |-> {}]
  /\ res = NoRes
  /\ obs = NoObs

\* the clock advances between requests (or does not: two requests may read
\* the same Date.now())
Tick ==
  /\ now < MaxNow
  /\ now' = now + 1
  /\ res' = NoRes
  /\ UNCHANGED <<txs, users, balance, pc, body, userId, latestTransaction,
                 otherPendingTransactions>>

\* ------------------------------------------------------- generatePixQrCode
\* mutant: the minimum is not checked
AmountRejectedNoMinimum(amount) == amount = 0 \/ amount <= 0

\* !amount || amount <= 0, then amount < 35
AmountRejected(amount) == amount = 0 \/ amount <= 0 \/ amount < MinDeposit

\* `PIX_${Date.now()}_${userId}`
ExternalId(t, u) == <<"PIX", t, u>>

\* Transaction.create({...}): createdAt is set by the store
NewTransaction(u, amount) ==
  [userId |-> u, type |-> "DEPOSIT", amount |-> amount, status |-> "PENDING",
   paymentMethod |-> "PIX", externalReference |-> ExternalId(now, u),
   createdAt |-> now, metadata |-> NoMeta]

\* whether the request reaches Transaction.create
Creates(amount, hasCredential) == ~AmountRejected(amount) /\ hasCredential

\* the status code of the response
GenerateStatus(amount, hasCredential, qrFails) ==
  IF AmountRejected(amount) THEN 400
  ELSE IF ~hasCredential THEN 500
  ELSE IF qrFails THEN 500
  ELSE 201

\* mutant: the PIX service is called before Transaction.create, so that a failed
\* call creates nothing
GeneratePixQrCodeQrFirst(u, amount, hasCredential, qrFails) ==
  /\ IF Creates(amount, hasCredential) /\ ~qrFails
       THEN /\ Len(txs) < MaxTx
            /\ txs' = Append(txs, NewTransaction(u, amount))
       ELSE UNCHANGED txs
  /\ res' = NoRes
  /\ UNCHANGED <<users, balance, now, pc, body, userId, latestTransaction,
                 otherPendingTransactions>>

\* one request: u = req.user.id, amount = req.body.amount, hasCredential = whether
\* PixCredential.findOne finds an active credential, qrFails = whether the PIX
\* service call throws (after the transaction was created)
GeneratePixQrCode(u, amount, hasCredential, qrFails) ==
  /\ IF Creates(amount, hasCredential)
       THEN /\ Len(txs) < MaxTx
            /\ txs' = Append(txs, NewTransaction(u, amount))
       ELSE UNCHANGED txs
  /\ res' = NoRes
  /\ UNCHANGED <<users, balance, now, pc, body, userId, latestTransaction,
                 otherPendingTransactions>>

\* ---------------------------------------------------------------- pixWebhook
\* the slot serves no request
Idle(p) == pc[p] = "idle"

\* mutant: only the presence of requestBody is checked
InvalidWebhookPresenceOnly(b) == ~b.present

\* !requestBody || requestBody.status !== 'PAID'
InvalidWebhook(b) == ~b.present \/ b.status # "PAID"

\* mutant: the system-wide lookup without the status filter
AnyPixChoices ==
  {i \in Ids : \A j \in Ids : txs[j].createdAt <= txs[i].createdAt}

\* mutant: sort({createdAt: 1})
AnyPendingOldestChoices ==
  {i \in PendingPix : \A j \in PendingPix : txs[j].createdAt >= txs[i].createdAt}

\* Transaction.findOne({PENDING PIX DEPOSIT}).sort({createdAt: -1}): a document
\* no other matching document is newer than; which one among equally new ones
\* is the store's choice
AnyPendingChoices ==
  {i \in PendingPix : \A j \in PendingPix : txs[j].createdAt <= txs[i].createdAt}

\* mutant: sort({amount: 1, createdAt: -1})
SortsFirstSmallest(i, j) ==
  \/ txs[i].amount < txs[j].amount
  \/ txs[i].amount = txs[j].amount /\ txs[i].createdAt >= txs[j].createdAt

\* mutant: sort({amount: -1, createdAt: 1})
SortsFirstOldest(i, j) ==
  \/ txs[i].amount > txs[j].amount
  \/ txs[i].amount = txs[j].amount /\ txs[i].createdAt <= txs[j].createdAt

\* sort({amount: -1, createdAt: -1}): i is not after j
SortsFirst(i, j) ==
  \/ txs[i].amount > txs[j].amount
  \/ txs[i].amount = txs[j].amount /\ txs[i].createdAt >= txs[j].createdAt

\* mutant: the filter of the per-user lookup matches no document
CandidateChoicesNone(u) == {}

\* Transaction.findOne({userId, PENDING PIX DEPOSIT}).sort({amount: -1, createdAt: -1})
CandidateChoices(u) ==
  {i \in PendingPixOf(u) : \A j \in PendingPixOf(u) : SortsFirst(i, j)}

\* res.status(...).json(...): the request is over and its locals are gone
Respond(p, r) ==
  /\ res' = r
  /\ pc' = [pc EXCEPT ![p] = "idle"]
  /\ body' = [body EXCEPT ![p] = NoBody]
  /\ userId' = [userId EXCEPT ![p] = NoUser]
  /\ latestTransaction' = [latestTransaction EXCEPT ![p] = 0]
  /\ otherPendingTransactions' = [otherPendingTransactions EXCEPT ![p] = {}]

\* the request arrives: payload validation and the system-wide lookup
WebhookReceive(p, b) ==
  /\ Idle(p)
  /\ IF InvalidWebhook(b)
       THEN Respond(p, ErrRes(400, "InvalidWebhook"))
       ELSE IF AnyPendingChoices = {}
         THEN Respond(p, ErrRes(404, "NoPendingDeposit"))
         ELSE \E i \in AnyPendingChoices :
                /\ userId' = [userId EXCEPT ![p] = txs[i].userId]
                /\ body' = [body EXCEPT ![p] = b]
                /\ pc' = [pc EXCEPT ![p] = "candidate"]
                /\ res' = NoRes
                /\ UNCHANGED <<latestTransaction, otherPendingTransactions>>
  /\ UNCHANGED <<txs, users, balance, now>>

\* mutant: the candidate is the user's pending deposit of the amount the payload
\* says was paid, when there is one
FindCandidateByPaidAmount(p) ==
  /\ pc[p] = "candidate"
  /\ LET paid == {i \in PendingPixOf(userId[p]) : txs[i].amount = body[p].amount}
         found == IF paid # {} THEN paid ELSE CandidateChoices(userId[p])
     IN IF found = {}
          THEN Respond(p, ErrRes(404, "NoPendingDepositForUser"))
          ELSE \E i \in found :
                 /\ latestTransaction' = [latestTransaction EXCEPT ![p] = i]
                 /\ pc' = [pc EXCEPT ![p] = "user"]
                 /\ res' = NoRes
                 /\ UNCHANGED <<body, userId, otherPendingTransactions>>
  /\ UNCHANGED <<txs, users, balance, now>>

\* the per-user lookup of the candidate
FindCandidate(p) ==
  /\ pc[p] = "candidate"
  /\ IF CandidateChoices(userId[p]) = {}
       THEN Respond(p, ErrRes(404, "NoPendingDepositForUser"))
       ELSE \E i \in CandidateChoices(userId[p]) :
              /\ latestTransaction' = [latestTransaction EXCEPT ![p] = i]
              /\ pc' = [pc EXCEPT ![p] = "user"]
              /\ res' = NoRes
              /\ UNCHANGED <<body, userId, otherPendingTransactions>>
  /\ UNCHANGED <<txs, users, balance, now>>

\* mutant: the user check is missing
UserLoadedAlways(u) == TRUE

\* User.findById(id) finds a document
UserLoaded(u) == u \in users

\* const user = await User.findById(latestTransaction.userId); if (!user) ...
FindUser(p) ==
  /\ pc[p] = "user"
  /\ IF ~UserLoaded(txs[latestTransaction[p]].userId)
       THEN Respond(p, ErrRes(404, "UserNotFound"))
       ELSE /\ pc' = [pc EXCEPT ![p] = "save"]
            /\ res' = NoRes
            /\ UNCHANGED <<body, userId, latestTransaction, otherPendingTransactions>>
  /\ UNCHANGED <<txs, users, balance, now>>

\* mutant: originalAmount records the amount the payload says was paid
CompletedMetaPaidAmount(p, t) ==
  [specialLogicApplied |-> TRUE, originalAmount |-> NumOrUnknown(body[p].amount),
   actualPaymentAmount |-> NumOrUnknown(body[p].amount),
   pixTransactionId |-> StrOrUnknown(body[p].transactionId),
   userIdProcessed |-> userId[p], cancelledBy |-> ""]

\* the metadata object assigned to the candidate
CompletedMeta(p, t) ==
  [specialLogicApplied |-> TRUE, originalAmount |-> t.amount,
   actualPaymentAmount |-> NumOrUnknown(body[p].amount),
   pixTransactionId |-> StrOrUnknown(body[p].transactionId),
   userIdProcessed |-> userId[p], cancelledBy |-> ""]

\* the Transaction model's middleware: a deposit saved with its status changed
\* to COMPLETED credits its amount to the owner's balance
CreditOnCompleted(bal, t) == [bal EXCEPT ![t.userId] = @ + t.amount]

\* latestTransaction.status = 'COMPLETED'; latestTransaction.metadata = {...};
\* await latestTransaction.save(): writes the two modified paths of the document
\* with that _id, whatever its stored status has become
SaveCandidate(p) ==
  /\ pc[p] = "save"
  /\ LET id == latestTransaction[p] IN
       /\ txs' = [txs EXCEPT ![id] = [@ EXCEPT !.status = "COMPLETED",
                                               !.metadata = CompletedMeta(p, txs[id])]]
       /\ balance' = CreditOnCompleted(balance, txs[id])
  /\ pc' = [pc EXCEPT ![p] = "others"]
  /\ res' = NoRes
  /\ UNCHANGED <<users, now, body, userId, latestTransaction,
                 otherPendingTransactions>>

\* the filter of Transaction.find and of Transaction.updateMany
OtherPending(p) == PendingPixOf(userId[p]) \ {latestTransaction[p]}

\* mutant: the response reports the amount the payload says was paid
SuccessResPaid(p, cancelled) ==
  [code |-> 200, message |-> "OK", userId |-> userId[p],
   originalAmount |-> txs[latestTransaction[p]].amount,
   actualPaymentAmount |-> NumOrUnknown(body[p].amount),
   cancelledTransactions |-> cancelled,
   totalCredited |-> NumOrUnknown(body[p].amount)]

\* the response of a processed payment
SuccessRes(p, cancelled) ==
  [code |-> 200, message |-> "OK", userId |-> userId[p],
   originalAmount |-> txs[latestTransaction[p]].amount,
   actualPaymentAmount |-> NumOrUnknown(body[p].amount),
   cancelledTransactions |-> cancelled,
   totalCredited |-> txs[latestTransaction[p]].amount]

\* Transaction.find({... _id: {$ne}}); with nothing found the response is sent
FindOthers(p) ==
  /\ pc[p] = "others"
  /\ IF OtherPending(p) = {}
       THEN Respond(p, SuccessRes(p, 0))
       ELSE /\ otherPendingTransactions' =
                 [otherPendingTransactions EXCEPT ![p] = OtherPending(p)]
            /\ pc' = [pc EXCEPT ![p] = "cancel"]
            /\ res' = NoRes
            /\ UNCHANGED <<body, userId, latestTransaction>>
  /\ UNCHANGED <<txs, users, balance, now>>

\* Transaction.updateMany(filter, {status: 'CANCELLED', $set: {...}}): the filter is
\* evaluated again, on the store as it is now; then the response is sent
CancelOthers(p) ==
  /\ pc[p] = "cancel"
  /\ txs' = [i \in Ids |->
               IF i \in OtherPending(p)
                 THEN [txs[i] EXCEPT !.status = "CANCELLED",
                                     !.metadata.cancelledBy = "SPECIAL_LOGIC"]
                 ELSE txs[i]]
  /\ Respond(p, SuccessRes(p, Cardinality(otherPendingTransactions[p])))
  /\ UNCHANGED <<users, balance, now>>

\* a store call of the write phase (save, find, updateMany) throws (connection
\* lost, timeout): the catch block answers 500 and nothing written before is undone
StoreFailure(p) ==
  /\ pc[p] \in {"save", "others", "cancel"}
  /\ Respond(p, ErrRes(500, "PersistenceFailure"))
  /\ UNCHANGED <<txs, users, balance, now>>

\* ------------------------------------------- getSpecialLogicHistory / Stats
\* the filter {type: 'DEPOSIT', paymentMethod: 'PIX', 'metadata.specialLogicApplied': true}
SpecialLogicApplied(t) ==
  t.type = "DEPOSIT" /\ t.paymentMethod = "PIX" /\ t.metadata.specialLogicApplied

\* the documents getSpecialLogicHistory lists and getSpecialLogicStats counts
SpecialLogicHistory == {i \in Ids : SpecialLogicApplied(txs[i])}

RECURSIVE SumAmount(_)
\* $group: {totalAmount: {$sum: '$amount'}} over the documents of S
SumAmount(S) ==
  IF S = {} THEN 0
  ELSE LET i == CHOOSE x \in S : TRUE IN txs[i].amount + SumAmount(S \ {i})

\* totalAmountCredited of getSpecialLogicStats
TotalAmountCredited == SumAmount(SpecialLogicHistory)

\* ------------------------------------------------------------ specifications
Generate ==
  \E u \in Users, amount \in AmountInputs, hasCredential \in BOOLEAN, qrFails \in BOOLEAN :
    GeneratePixQrCode(u, amount, hasCredential, qrFails)

\* requests interleave at every await
Next ==
  \/ Tick /\ UNCHANGED obs
  \/ Generate /\ UNCHANGED obs
  \/ \E p \in Procs, b \in Bodies : WebhookReceive(p, b) /\ UNCHANGED obs
  \/ \E p \in Procs : FindCandidate(p) /\ UNCHANGED obs
  \/ \E p \in Procs : FindUser(p) /\ UNCHANGED obs
  \/ \E p \in Procs : SaveCandidate(p) /\ UNCHANGED obs
  \/ \E p \in Procs : FindOthers(p) /\ UNCHANGED obs
  \/ \E p \in Procs : CancelOthers(p) /\ UNCHANGED obs
  \/ \E p \in Procs : StoreFailure(p) /\ UNCHANGED obs

Spec == Init /\ [][Next]_vars

\* no webhook request is being served
Quiet == \A q \in Procs : Idle(q)

\* the slot a server with nothing else to do gives a request
FirstSlot == "w1"

\* one request at a time: every request runs from arrival to response with no
\* other request in between; obs records what the request was given and did
SeqTick == Quiet /\ Tick /\ obs' = NoObs

SeqGenerate ==
  /\ Quiet
  /\ \E u \in Users, amount \in AmountInputs, hasCredential \in BOOLEAN, qrFails \in BOOLEAN :
       /\ GeneratePixQrCode(u, amount, hasCredential, qrFails)
       /\ obs' = [NoObs EXCEPT !.served = "generate", !.preTxs = txs,
                               !.genAmount = amount,
                               !.genQrFails = Creates(amount, hasCredential) /\ qrFails,
                               !.genCode = GenerateStatus(amount, hasCredential, qrFails),
                               !.genId = IF Creates(amount, hasCredential)
                                           THEN Len(txs) + 1 ELSE 0]

SeqReceive ==
  /\ Quiet
  /\ \E b \in Bodies :
       /\ WebhookReceive(FirstSlot, b)
       /\ obs' = [NoObs EXCEPT !.served = "webhook", !.preTxs = txs,
                               !.preBalance = balance, !.body = b,
                               !.priorBody = obs.body, !.priorCode = res.code,
                               !.priorGenId = IF obs.genQrFails THEN obs.genId ELSE 0]

SeqFindCandidate ==
  \E p \in Procs :
    /\ FindCandidate(p)
    /\ obs' = [obs EXCEPT !.candidate = latestTransaction'[p]]

NextSeq ==
  \/ SeqTick
  \/ SeqGenerate
  \/ SeqReceive
  \/ SeqFindCandidate
  \/ \E p \in Procs : FindUser(p) /\ UNCHANGED obs
  \/ \E p \in Procs : SaveCandidate(p) /\ UNCHANGED obs
  \/ \E p \in Procs : FindOthers(p) /\ UNCHANGED obs
  \/ \E p \in Procs : CancelOthers(p) /\ UNCHANGED obs
  \/ \E p \in Procs : StoreFailure(p) /\ UNCHANGED obs

SpecSeq == Init /\ [][NextSeq]_vars

\* webhook requests interleave with each other; any other request is served
\* between them.  obs keeps the store as it was when the first request of a burst
\* of overlapping webhook requests arrived
RaceTick == Quiet /\ Tick /\ obs' = NoObs

RaceGenerate == Quiet /\ Generate /\ obs' = NoObs

RaceReceive ==
  \E p \in Procs, b \in Bodies :
    /\ WebhookReceive(p, b)
    /\ obs' = IF Quiet
                THEN [NoObs EXCEPT !.served = "webhook", !.preTxs = txs,
                                   !.preBalance = balance, !.body = b]
                ELSE [obs EXCEPT !.overlap = TRUE]

NextRace ==
  \/ RaceTick
  \/ RaceGenerate
  \/ RaceReceive
  \/ \E p \in Procs : FindCandidate(p) /\ UNCHANGED obs
  \/ \E p \in Procs : FindUser(p) /\ UNCHANGED obs
  \/ \E p \in Procs : SaveCandidate(p) /\ UNCHANGED obs
  \/ \E p \in Procs : FindOthers(p) /\ UNCHANGED obs
  \/ \E p \in Procs : CancelOthers(p) /\ UNCHANGED obs
  \/ \E p \in Procs : StoreFailure(p) /\ UNCHANGED obs

SpecRace == Init /\ [][NextRace]_vars

\* one request at a time, every webhook delivery carrying status PAID: the
\* payloads differ in amount and transactionId
PaidBodies == {PaidFull, PaidBare}

PayloadReceive ==
  /\ Quiet
  /\ \E b \in PaidBodies :
       /\ WebhookReceive(FirstSlot, b)
       /\ obs' = [NoObs EXCEPT !.served = "webhook", !.preTxs = txs,
                               !.preBalance = balance, !.body = b,
                               !.priorBody = obs.body, !.priorCode = res.code]

NextPayload ==
  \/ SeqTick
  \/ SeqGenerate
  \/ PayloadReceive
  \/ SeqFindCandidate
  \/ \E p \in Procs : FindUser(p) /\ UNCHANGED obs
  \/ \E p \in Procs : SaveCandidate(p) /\ UNCHANGED obs
  \/ \E p \in Procs : FindOthers(p) /\ UNCHANGED obs
  \/ \E p \in Procs : CancelOthers(p) /\ UNCHANGED obs
  \/ \E p \in Procs : StoreFailure(p) /\ UNCHANGED obs

SpecPayload == Init /\ [][NextPayload]_vars

\* ------------------------------------------------------------------- claims
\* the deposits that were PENDING PIX deposits when the webhook request arrived
PrePending == {i \in DOMAIN obs.preTxs : IsPendingPix(obs.preTxs[i])}

PrePendingOf(u) == {i \in PrePending : obs.preTxs[i].userId = u}

\* the owner of the candidate the request selected
CandidateOwner == obs.preTxs[obs.candidate].userId

\* every PENDING PIX deposit is u's, there is one at least, and no two have the
\* same amount
OnlyDistinctDepositsOf(u) ==
  /\ PrePending # {}
  /\ PrePending = PrePendingOf(u)
  /\ \A i, j \in PrePending : i # j => obs.preTxs[i].amount # obs.preTxs[j].amount

\* C1: when the only PENDING PIX deposits are N >= 1 deposits of one user with
\* pairwise distinct amounts, a PAID webhook request served alone and answered 200
\* leaves exactly one of them COMPLETED, the one of the largest amount, and the
\* other N-1 CANCELLED; none is left PENDING
C1_MaxCompletedOthersCancelled ==
  res.code = 200 =>
    \A u \in Users :
      OnlyDistinctDepositsOf(u) =>
        \E c \in PrePending :
          /\ txs[c].status = "COMPLETED"
          /\ \A j \in PrePending \ {c} :
               txs[j].status = "CANCELLED" /\ txs[j].amount < txs[c].amount

C1_Witness ==
  /\ res.code = 200
  /\ \E u \in Users : OnlyDistinctDepositsOf(u)
  /\ Cardinality(PrePending) = 2
  /\ \E j \in PrePending : txs[j].status = "CANCELLED"

\* C2: overlapping PAID webhook requests never mark COMPLETED two different
\* deposits of one user out of the deposits that were PENDING when the first of
\* them arrived (stated as the claim, for deposits of pairwise distinct amounts,
\* where the candidate lookup has one answer; the code violates it)
C2_OneCompletedPerUser ==
  obs.served = "webhook" =>
    \A u \in Users :
      (\A i, j \in PrePendingOf(u) : i # j => txs[i].amount # txs[j].amount) =>
        Cardinality({i \in PrePendingOf(u) : txs[i].status = "COMPLETED"}) <= 1

\* C3: a webhook request answered 500 leaves the candidate and its siblings either
\* all PENDING, or the candidate COMPLETED and every sibling CANCELLED (stated as
\* the claim; the code violates it)
C3_AllOrNothing ==
  res.code = 500 =>
    \/ \A i \in PrePendingOf(CandidateOwner) : txs[i].status = "PENDING"
    \/ /\ txs[obs.candidate].status = "COMPLETED"
       /\ \A i \in PrePendingOf(CandidateOwner) \ {obs.candidate} :
            txs[i].status = "CANCELLED"

\* C4: a PAID webhook request served right after one with the same payload that
\* was answered 200 is answered 404 and has changed no transaction and no balance
\* (stated as the claim, for a second request whose store calls do not throw; the
\* code violates it)
C4_SecondDeliveryRejected ==
  (/\ obs.served = "webhook"
   /\ obs.priorCode = 200
   /\ obs.priorBody = obs.body
   /\ res.code \notin {0, 500})
    => (res.code = 404 /\ txs = obs.preTxs /\ balance = obs.preBalance)

\* C5: a webhook request served alone and answered 200 has increased the balance
\* of exactly one user, the owner of the candidate, by the candidate's amount; the
\* candidate is the only deposit it made COMPLETED; totalCredited is that amount
C5_CreditedOnce ==
  res.code = 200 =>
    /\ balance = [obs.preBalance EXCEPT ![CandidateOwner] =
                    @ + obs.preTxs[obs.candidate].amount]
    /\ {i \in Ids : txs[i].status = "COMPLETED" /\ obs.preTxs[i].status # "COMPLETED"}
         = {obs.candidate}
    /\ res.totalCredited = obs.preTxs[obs.candidate].amount
    /\ res.userId = CandidateOwner

\* PENDING deposits of 500 and 35 of one user: the balance went up by 500
C5_Witness ==
  /\ res.code = 200
  /\ \E u \in Users :
       /\ {obs.preTxs[i].amount : i \in PrePendingOf(u)} = {35, 500}
       /\ balance[u] = obs.preBalance[u] + 500
       /\ res.totalCredited = 500
       /\ \E j \in PrePendingOf(u) : txs[j].amount = 35 /\ txs[j].status = "CANCELLED"

\* C6: COMPLETED and CANCELLED are terminal: no step changes the status of a
\* transaction that is COMPLETED or CANCELLED, and only a webhook step (one that
\* is not a generatePixQrCode step) changes the status of a PENDING one (stated
\* as the claim, for stores whose deposits have pairwise distinct amounts, where
\* the candidate lookup has one answer; the code violates it)
C6_TerminalStatuses ==
  [][(\A i, j \in Ids : i # j => txs[i].amount # txs[j].amount) =>
       \A i \in Ids :
         /\ txs[i].status \in {"COMPLETED", "CANCELLED"}
              => txs'[i].status = txs[i].status
         /\ txs'[i].status # txs[i].status => ~Generate]_vars

\* the PENDING PIX deposits of u of the largest amount
TopOf(u) ==
  {i \in PrePendingOf(u) :
     \A j \in PrePendingOf(u) : obs.preTxs[j].amount <= obs.preTxs[i].amount}

\* C7: when two or more PENDING PIX deposits of the target user share the largest
\* amount, a webhook request served alone and answered 200 has made COMPLETED one
\* of them that no other of them is newer than, and CANCELLED the user's others
C7_TieBreak ==
  (res.code = 200 /\ Cardinality(TopOf(CandidateOwner)) >= 2) =>
    /\ obs.candidate \in TopOf(CandidateOwner)
    /\ txs[obs.candidate].status = "COMPLETED"
    /\ \A j \in TopOf(CandidateOwner) : txs[j].createdAt <= txs[obs.candidate].createdAt
    /\ \A j \in PrePendingOf(CandidateOwner) \ {obs.candidate} :
         txs[j].status = "CANCELLED"

C7_Witness ==
  /\ res.code = 200
  /\ \E j \in TopOf(CandidateOwner) :
       /\ txs[j].createdAt < txs[obs.candidate].createdAt
       /\ txs[j].status = "CANCELLED"
       /\ txs[obs.candidate].status = "COMPLETED"

\* a payload that is there and whose status is "PAID"
PaidPayload(b) == b.present /\ b.status = "PAID"

\* C8: a webhook request with no requestBody, or with a status other than "PAID",
\* is answered 400 and the step changes no transaction and no balance, whatever
\* the store holds and whatever other requests are in flight
C8_InvalidWebhookRejected ==
  [][\A p \in Procs, b \in Bodies :
       (~PaidPayload(b) /\ WebhookReceive(p, b))
         => (res'.code = 400 /\ txs' = txs /\ balance' = balance)]_vars

C8_Witness == res.code = 400 /\ PendingPix # {}

\* C9: a PAID webhook request arriving when the store holds no PENDING PIX deposit
\* is answered 404 NoPendingDeposit and the step changes no transaction and no
\* balance
C9_NoPendingRejected ==
  [][\A p \in Procs, b \in Bodies :
       (PaidPayload(b) /\ PendingPix = {} /\ WebhookReceive(p, b))
         => (/\ res'.code = 404
             /\ res'.message = "NoPendingDeposit"
             /\ txs' = txs
             /\ balance' = balance)]_vars

C9_Witness == res.message = "NoPendingDeposit" /\ Len(txs) > 0 /\ balance # [u \in Users |-> 0]

\* C10: a webhook request served alone whose candidate's owner has no User
\* document is answered 404 UserNotFound and has changed no transaction and no
\* balance: the candidate and its siblings are still PENDING
C10_UserNotFoundNoMutation ==
  (res.code # 0 /\ obs.candidate # 0 /\ CandidateOwner \notin users) =>
    /\ res = ErrRes(404, "UserNotFound")
    /\ txs = obs.preTxs
    /\ balance = obs.preBalance
    /\ \A i \in PrePendingOf(CandidateOwner) : txs[i].status = "PENDING"

C10_Witness ==
  /\ res.message = "UserNotFound"
  /\ Cardinality(PrePendingOf(CandidateOwner)) = 2

\* the newest PENDING PIX deposits the arrival store held, and their owners
PreNewest ==
  {i \in PrePending :
     \A j \in PrePending : obs.preTxs[j].createdAt <= obs.preTxs[i].createdAt}

PreOwners == {obs.preTxs[i].userId : i \in PreNewest}

\* the deposits of u the candidate sort order puts first in the arrival store
PreFirst(u) ==
  {i \in TopOf(u) :
     \A j \in TopOf(u) : obs.preTxs[j].createdAt <= obs.preTxs[i].createdAt}

\* what a processed request leaves of the arrival store, given its user and its
\* candidate: nothing of it depends on the payload
ResolvedBy(u, c) ==
  /\ \A i \in DOMAIN obs.preTxs :
       txs[i].status = IF i = c THEN "COMPLETED"
                       ELSE IF i \in PrePendingOf(u) THEN "CANCELLED"
                       ELSE obs.preTxs[i].status
  /\ res.totalCredited = obs.preTxs[c].amount
  /\ res.originalAmount = obs.preTxs[c].amount

\* C11 as stated: whatever the PAID payload, a processed request has the one user
\* and the one candidate the arrival store determines, and the statuses and the
\* credited amount that follow from them (the code violates it: the store may
\* hold several deposits neither sort order tells apart)
C11_OnePossibleOutcome ==
  res.code = 200 =>
    /\ PreOwners = {res.userId}
    /\ PreFirst(res.userId) = {obs.candidate}
    /\ ResolvedBy(res.userId, obs.candidate)

\* C11 as amended: whatever the PAID payload, the user of a processed request is
\* the owner of one of the newest PENDING PIX deposits of the arrival store, its
\* candidate is one of the deposits of that user the sort order puts first, and
\* the statuses and the credited amount follow from these two alone
C11_PayloadIndependent ==
  res.code = 200 =>
    /\ res.userId \in PreOwners
    /\ obs.candidate \in PreFirst(res.userId)
    /\ ResolvedBy(res.userId, obs.candidate)

\* a payload without amount, and one of amount 35, each credited a deposit of 500
\* and cancelled one of 35
C11_WitnessOf(b) ==
  /\ res.code = 200
  /\ obs.body = b
  /\ obs.preTxs[obs.candidate].amount = 500
  /\ res.totalCredited = 500
  /\ \E j \in PrePendingOf(res.userId) :
       obs.preTxs[j].amount = 35 /\ txs[j].status = "CANCELLED"

C11_Witness == C11_WitnessOf(PaidBare)

\* C12: no two transactions of the store have the same externalReference (stated
\* as the claim; the code violates it)
C12_ExternalReferenceUnique ==
  \A i, j \in Ids : i # j => txs[i].externalReference # txs[j].externalReference

\* C13: a generatePixQrCode request whose amount is missing (0), <= 0 or < 35 is
\* answered 400 and leaves the store as it was; a request that creates a
\* transaction creates a PENDING PIX DEPOSIT of the posted amount; and every
\* transaction of the store has an amount >= 35
C13_AmountValidated ==
  /\ \A i \in Ids :
       txs[i].amount >= 35 /\ txs[i].type = "DEPOSIT" /\ txs[i].paymentMethod = "PIX"
  /\ obs.served = "generate" =>
       /\ (obs.genAmount = 0 \/ obs.genAmount <= 0 \/ obs.genAmount < 35)
            => (obs.genCode = 400 /\ obs.genId = 0 /\ txs = obs.preTxs)
       /\ obs.genId # 0 =>
            /\ txs = Append(obs.preTxs, txs[obs.genId])
            /\ txs[obs.genId].status = "PENDING"
            /\ txs[obs.genId].amount = obs.genAmount

\* a request of amount 20 was answered 400 by a store that holds a deposit
C13_Witness ==
  /\ obs.served = "generate"
  /\ obs.genAmount = 20
  /\ obs.genCode = 400
  /\ Len(txs) > 0

\* C14: the user a processed webhook request served alone credits is the owner of
\* a PENDING PIX deposit of the arrival store that none is newer than, whatever
\* the other users' deposits; the deposit made COMPLETED is that user's, and no
\* other balance changes
C14_NewestOwnerCredited ==
  res.code = 200 =>
    /\ \E i \in PrePending :
         /\ obs.preTxs[i].userId = res.userId
         /\ \A j \in PrePending : obs.preTxs[j].createdAt <= obs.preTxs[i].createdAt
    /\ txs[obs.candidate].userId = res.userId
    /\ txs[obs.candidate].status = "COMPLETED"
    /\ balance[res.userId] > obs.preBalance[res.userId]
    /\ \A u \in Users \ {res.userId} : balance[u] = obs.preBalance[u]

\* another user had an older and larger PENDING deposit: it stays PENDING
C14_Witness ==
  /\ res.code = 200
  /\ \E i \in PrePending :
       /\ obs.preTxs[i].userId # res.userId
       /\ obs.preTxs[i].createdAt < obs.preTxs[obs.candidate].createdAt
       /\ obs.preTxs[i].amount > obs.preTxs[obs.candidate].amount
       /\ txs[i].status = "PENDING"

\* C15: the cancelledTransactions a webhook request reports is the number of
\* deposits its updateMany moved from PENDING to CANCELLED, and 0 when it ran
\* none (stated as the claim, for stores whose deposits have pairwise distinct
\* amounts, where the candidate lookup has one answer; the code violates it)
C15_CancelledCountExact ==
  [][(\A i, j \in Ids : i # j => txs[i].amount # txs[j].amount) =>
       \A p \in Procs :
         ((FindOthers(p) \/ CancelOthers(p)) /\ res'.code = 200)
           => res'.cancelledTransactions =
                Cardinality({i \in Ids : /\ txs[i].status = "PENDING"
                                          /\ txs'[i].status = "CANCELLED"})]_vars

\* C16: every deposit a webhook request marks CANCELLED has an amount less than or
\* equal to the amount of the deposit the request marked COMPLETED (stated as the
\* claim; the code violates it)
C16_CancelledNotLarger ==
  [][\A p \in Procs :
       CancelOthers(p) =>
         \A i \in Ids :
           (txs[i].status = "PENDING" /\ txs'[i].status = "CANCELLED")
             => txs[i].amount <= txs[latestTransaction[p]].amount]_vars

\* C17: a step of a webhook request changes only transactions that are PENDING
\* PIX DEPOSITs of the request's target user, and no balance but that user's
\* (stated as the claim, for stores whose deposits have pairwise distinct
\* amounts, where the candidate lookup has one answer; the code violates it)
C17_OnlyTargetPendingChanged ==
  [][(\A i, j \in Ids : i # j => txs[i].amount # txs[j].amount) =>
       \A p \in Procs :
         (SaveCandidate(p) \/ FindOthers(p) \/ CancelOthers(p)) =>
           /\ \A i \in Ids :
                txs'[i] # txs[i] => (IsPendingPix(txs[i]) /\ txs[i].userId = userId[p])
           /\ \A u \in Users \ {userId[p]} : balance'[u] = balance[u]]_vars

\* C18: the per-user lookup of a webhook request answers 404 only when another
\* webhook request arrived while one was being served and the PENDING PIX
\* deposits the target user had were resolved in the meantime, never for a
\* request served alone; the step that answers changes no transaction and no
\* balance
C18_PerUserNotFoundOnlyWhenRaced ==
  [][\A p \in Procs :
       (FindCandidate(p) /\ res'.message = "NoPendingDepositForUser") =>
         /\ obs.overlap
         /\ PrePendingOf(userId[p]) # {}
         /\ \A i \in PrePendingOf(userId[p]) : txs[i].status \in {"COMPLETED", "CANCELLED"}
         /\ res'.code = 404
         /\ txs' = txs
         /\ balance' = balance]_vars

C18_Witness ==
  /\ res.message = "NoPendingDepositForUser"
  /\ obs.overlap
  /\ \E i \in PrePending : txs[i].status = "COMPLETED"

\* C19: a generatePixQrCode request whose PIX service call throws is answered 500
\* and the PENDING PIX deposit it created is in the store; a PAID webhook request
\* served next finds it among the PENDING PIX deposits, and when it selects it,
\* makes it COMPLETED and credits its amount
C19_FailedQrDepositStays ==
  /\ (obs.served = "generate" /\ obs.genQrFails) =>
       /\ obs.genCode = 500
       /\ obs.genId \in Ids
       /\ obs.genId \notin DOMAIN obs.preTxs
       /\ IsPendingPix(txs[obs.genId])
  /\ (obs.served = "webhook" /\ obs.priorGenId # 0) =>
       /\ obs.priorGenId \in PrePending
       /\ (res.code = 200 /\ obs.candidate = obs.priorGenId) =>
            /\ txs[obs.candidate].status = "COMPLETED"
            /\ res.totalCredited = txs[obs.candidate].amount
            /\ balance[res.userId] =
                 obs.preBalance[res.userId] + txs[obs.candidate].amount

C19_Witness ==
  /\ res.code = 200
  /\ obs.priorGenId # 0
  /\ obs.candidate = obs.priorGenId
  /\ txs[obs.candidate].status = "COMPLETED"
  /\ balance[res.userId] > obs.preBalance[res.userId]

\* C20: in every reachable state, whatever the interleaving, a transaction has
\* metadata.specialLogicApplied exactly when its status is COMPLETED, and then its
\* metadata.originalAmount is its amount; so the history and stats endpoints
\* report exactly the COMPLETED deposits, and totalAmountCredited is the sum of
\* their recorded originalAmount
C20_FlagIffCompleted ==
  /\ \A i \in Ids :
       /\ txs[i].metadata.specialLogicApplied <=> txs[i].status = "COMPLETED"
       /\ txs[i].metadata.specialLogicApplied
            => txs[i].metadata.originalAmount = txs[i].amount
  /\ SpecialLogicHistory = {i \in Ids : txs[i].status = "COMPLETED"}
  /\ \A i \in SpecialLogicHistory :
       TotalAmountCredited - txs[i].metadata.originalAmount
         = SumAmount(SpecialLogicHistory \ {i})

\* two requests overlapped and each completed a deposit; one deposit of another
\* amount than the payload's
C20_Witness ==
  /\ Cardinality(SpecialLogicHistory) = 2
  /\ TotalAmountCredited = 535
  /\ \E i \in SpecialLogicHistory :
       txs[i].metadata.actualPaymentAmount # txs[i].amount

====
